---------------------------- MODULE Spec2Model ----------------------------
(***************************************************************************)
(* HomeHeal backend: booking ledger, technician assignment and the         *)
(* arrival-verification (OTP) gate, modelled from the request handlers of  *)
(* Backend/src/controllers.                                                *)
(*                                                                         *)
(* A request handler is an async function; every `await` is a point where  *)
(* other requests run.  A handler is therefore modelled as a request slot  *)
(* that walks through its awaits: the first action of a handler does the   *)
(* input validation and the first datastore read, every later action is    *)
(* the code between one await and the next.  Each datastore operation is   *)
(* atomic on its document.                                                 *)
(*                                                                         *)
(* document.save() validates every path of the document before it writes   *)
(* (no schema and no save of a booking sets another option) and writes     *)
(* nothing when a validator fails.  What it writes are the paths the       *)
(* handler modified (a $set of a scalar whose value differs from the value *)
(* read, a $push of the entries appended to an array).  Two validators of  *)
(* the Booking schema decide the saves of the handlers: the enum of        *)
(* `status`, and the validator of `assigned_technician`, which calls       *)
(* User.findById in a module that never imports User and so throws on      *)
(* every value it is run on, null included; it is not run on undefined.    *)
(*                                                                         *)
(* The mongoose library is not in the repository.  Where its behaviour     *)
(* depends on the version and the options of the deployment, the model     *)
(* keeps each behaviour as one value of the variable `mongoose`, chosen at *)
(* start-up and never changed: what Model.discriminator(name) does when    *)
(* it is called without a schema, and what a filter does with a condition  *)
(* whose value is undefined.  The                                          *)
(* repository holds two User schemas, one with capitalised and one with    *)
(* lowercase role names; which of them the stored users follow is part of  *)
(* the same variable.                                                      *)
(*                                                                         *)
(* Requests reach the handlers through the routers: a specification calls  *)
(* a handler with the req.params its route declares and behind the         *)
(* middleware its route mounts.                                            *)
(*                                                                         *)
(* No handler can insert a booking (Booking.create in createBooking lacks  *)
(* required paths, the transaction of createBulkBooking never commits), so *)
(* the Booking collection starts with documents that are already stored.   *)
(***************************************************************************)
EXTENDS Integers, Sequences, FiniteSets, TLC

\* ------------------------------------------------------------------ bounds
MaxBookings == 2
MaxHist == 4
MaxOtps == 2
MaxTime == 5
MaxBulk == 2
MaxItems == 2

\* ------------------------------------------------------- program constants
OtpMaxAttempts == 3
OtpExpiryMinutes == 5

\* ------------------------------------------------------------------ actors
Customers == {"u1"}
Strangers == {"u2"}
Admins == {"a1"}
Technicians == {"t1", "t2", "t3", "t4"}

\* assigned_technician: null (the schema default, also what a document
\* without the path loads as) and undefined (what rescheduleBooking assigns)
NoTech == "none"
Undefined == "undefined"

\* req.params.<name> for a name the route does not declare: undefined
Missing == -1

\* availability of a stored technician: the workingHours entry of the current
\* weekday ("09:00" to "17:00", kept as hour and minute), and the break fields,
\* whose instants are minutes of the wall clock
Availability(onBreak) ==
    [workingHours |-> [start |-> <<9, 0>>, end |-> <<17, 0>>, available |-> TRUE],
     isOnBreak |-> onBreak, breakStart |-> 0, breakEnd |-> 30]

\* The technician documents.  t1 and t2 can take work, t2 is on a break, t3 has
\* no skills, t4 is offline.
TechnicianDoc(t) ==
    CASE t = "t1" -> [status |-> "active", isOnline |-> TRUE, maxWorkload |-> 1,
                      skills |-> {"s1"}, availability |-> Availability(FALSE)]
      [] t = "t2" -> [status |-> "active", isOnline |-> TRUE, maxWorkload |-> 2,
                      skills |-> {"s1"}, availability |-> Availability(TRUE)]
      [] t = "t3" -> [status |-> "active", isOnline |-> TRUE, maxWorkload |-> 2,
                      skills |-> {}, availability |-> Availability(FALSE)]
      [] OTHER    -> [status |-> "active", isOnline |-> FALSE, maxWorkload |-> 2,
                      skills |-> {"s1"}, availability |-> Availability(FALSE)]

\* booking.services.flatMap(s => s.serviceId.skillsRequired || []): the Service
\* schema has no skillsRequired path, so a populated service carries none
RequiredSkills == {}

\* the 6-digit codes generateOTP can return, and a caller can submit
Codes == {"111111", "222222"}

\* the top-level paths of the Booking schema; a property outside of them is
\* not stored by document.save() and reads as undefined
BookingPaths ==
    {"bookingId", "images", "user", "assigned_technician", "services", "parts",
     "address", "scheduleDate", "preferredTimeSlot", "status", "cancellationReason",
     "rescheduledFrom", "payment", "totalAmount", "partsAmount", "discount",
     "finalAmount", "notes", "rating", "review", "reviewDate", "statusHistory"}

\* the enum of the schema's `status` path
BookingStatuses ==
    {"pending", "confirmed", "assigned", "in_progress", "completed", "cancelled",
     "rescheduled", "rejected"}

\* the paths of the Booking schema that are required and have no default
BookingRequired ==
    {"bookingId", "user", "address", "scheduleDate", "preferredTimeSlot",
     "payment.method", "totalAmount", "finalAmount"}

\* the sum of the prices of the services of a booking
ServicesPrice == 500

\* the Part collection: the price of each part on sale
PartIds == {"p1", "p2"}
PartPrice(p) == IF p = "p1" THEN 50 ELSE 30

\* status values a caller submits in a status update ("" is a missing field)
StatusInputs == {"", "pending", "reached", "in_progress", "completed"}
JobStatusInputs == {"bogus", "confirmed", "reached", "otp_pending", "in_progress", "completed"}

\* the data layers a deployment can run on.  discriminator: what
\* User.discriminator('Technician') does, called with a name and no schema.
\* undefinedFilter: a filter condition whose value is undefined is left out of
\* the query ("dropped"), or is sent as null, which no stored _id or reference
\* equals ("null").  roles: the enum of `role` in the User schema the stored
\* users follow
Builds ==
    [discriminator : {"throws", "registered"},
     undefinedFilter : {"dropped", "null"}, roles : {"lowercase", "capitalised"}]

\* one data layer; a specification varies the choices its handlers read
DefaultBuild ==
    [discriminator |-> "throws",
     undefinedFilter |-> "null", roles |-> "lowercase"]

\* the data layers that differ in the choices V leaves open for
\* undefinedFilter and R for roles
BuildsOver(V, R) ==
    {B \in Builds : /\ B.discriminator = DefaultBuild.discriminator
                    /\ B.undefinedFilter \in V
                    /\ B.roles \in R}

VARIABLES
    bookings,   \* Booking collection: sequence of documents, _id = index
    otps,       \* OTP collection: sequence of documents in creation order
    mongoose,   \* the data layer the deployment runs on (fixed at start-up)
    now,        \* wall clock, minutes
    bulkBookings, \* BulkBooking collection: sequence of aggregates
    reqs        \* request slots: handler position, locals and response

vars == <<bookings, otps, mongoose, now, bulkBookings, reqs>>

Slots == {1, 2}

Idle == [op |-> "idle", pc |-> "idle", b |-> 0, actor |-> "none", arg |-> "none",
         force |-> FALSE, snapStatus |-> "none", snapTech |-> NoTech, otp |-> 0,
         attempts |-> 0, payloads |-> <<>>, created |-> <<>>, errors |-> <<>>,
         items |-> <<>>, index |-> 0, lines |-> <<>>, amount |-> 0,
         input |-> <<>>, rating |-> FALSE, params |-> [id |-> 0], expiresAt |-> 0,
         result |-> "none"]

\* req.user.role: the role of the stored user document
Role(a) ==
    IF mongoose.roles = "lowercase"
    THEN IF a \in Technicians THEN "technician"
         ELSE IF a \in Admins THEN "admin" ELSE "user"
    ELSE IF a \in Technicians THEN "Technician"
         ELSE IF a \in Admins THEN "Admin" ELSE "User"

\* const { name } = req.params
ParamOf(params, name) == IF name \in DOMAIN params THEN params[name] ELSE Missing

\* the condition `path: id` of a filter on a document whose path holds x
MatchesId(id, x) ==
    IF id = Missing THEN mongoose.undefinedFilter = "dropped" ELSE id = x

\* Model.findOne without a sort returns the first match in storage order;
\* 0 when nothing matches
FirstOf(S) == IF S = {} THEN 0 ELSE CHOOSE x \in S : \A y \in S : x <= y

\* role.middleware.js: the route middleware lets the caller through
isAdminOrManager(a) == Role(a) \in {"Admin", "Manager"}
isTechnician(a) == Role(a) = "Technician"

\* the request as it arrives at a handler
Req(op, a, b, arg) == [Idle EXCEPT !.op = op, !.actor = a, !.b = b, !.arg = arg]

\* a statusHistory entry; changedAt, changedBy and note are written but never
\* read by a handler and are left out
Entry(s, by, n) == [status |-> s]

Last(h) == h[Len(h)]

\* ------------------------------------------------- the stored documents
\* the statuses a stored booking can carry: the values of the schema's enum a
\* handler reads, and the values the handlers' filters look for outside of it
StoredStatuses ==
    {"pending", "assigned", "confirmed", "reached", "otp_pending", "in_progress",
     "in-progress", "completed", "cancelled"}

\* the history of a stored booking.  Handlers only append to statusHistory
\* and never read it, so the model keeps the array from the entry of the
\* stored status on and leaves out the entries before it
StoredHistory(s) == <<s>>

\* a stored booking of customer u1: technician t1 works on it from the
\* assignment on; the amounts are those of its services, no part, no discount
StoredBooking(s) ==
    [user |-> "u1",
     assigned_technician |-> IF s \in {"pending", "cancelled"} THEN NoTech ELSE "t1",
     status |-> s,
     statusHistory |-> [i \in 1..Len(StoredHistory(s)) |->
                           Entry(StoredHistory(s)[i], "u1", "stored")],
     declinedBy |-> {},
     servicesPrice |-> ServicesPrice, parts |-> <<>>,
     partsAmount |-> 0, discount |-> 0,
     totalAmount |-> ServicesPrice, finalAmount |-> ServicesPrice]

\* number of status-history entries in the whole ledger
RECURSIVE HistTotal(_)
HistTotal(bs) ==
    IF bs = <<>> THEN 0 ELSE Len(Head(bs).statusHistory) + HistTotal(Tail(bs))

\* the bookings of a ledger that count as work of technician t
Workload(bs, t) ==
    Cardinality({b \in 1..Len(bs) : /\ bs[b].assigned_technician = t
                                    /\ bs[b].status \in {"assigned", "in_progress"}})

\* the Booking collections a deployment can start on: up to n bookings in the
\* statuses S, no technician above maxWorkload
Ledgers(S, n) ==
    {bs \in UNION {[1..k -> {StoredBooking(s) : s \in S}] : k \in 0..n} :
        /\ HistTotal(bs) < MaxHist
        /\ \A t \in Technicians : Workload(bs, t) <= TechnicianDoc(t).maxWorkload}

\* the OTP collections that go with a ledger: a booking waiting for its code
\* has the unused code `111111`, issued at minute 0
StoredOtps(bs) ==
    {<<>>} \cup
    {<<[booking |-> b, technician |-> bs[b].assigned_technician, otp |-> "111111",
        expiresAt |-> OtpExpiryMinutes, isUsed |-> FALSE, attempts |-> 0]>> :
        b \in {x \in 1..Len(bs) : x = 1 /\ bs[x].status = "otp_pending"}}

\* the state a deployment of build B starts in, on a ledger of L
InitOn(B, L) ==
    /\ mongoose \in B
    /\ bookings \in L
    /\ otps \in StoredOtps(bookings)
    /\ now = 0
    /\ bulkBookings = <<>>
    /\ reqs = [r \in Slots |-> Idle]

Init == InitOn(Builds, Ledgers(StoredStatuses, 1))

BookingIds == 1..Len(bookings)

\* a handler answers request q: the response waits in the slot until it is sent
Finish(r, q, result) ==
    reqs' = [reqs EXCEPT ![r] = [q EXCEPT !.pc = "done", !.result = result]]

\* a route middleware throws ApiError(403) and the handler is not called
Denied(r, q) ==
    /\ reqs[r] = Idle
    /\ Finish(r, q, "403")
    /\ UNCHANGED <<bookings, otps, mongoose, now, bulkBookings>>

\* a handler goes on to its next await
Goto(r, rec) ==
    reqs' = [reqs EXCEPT ![r] = rec]

\* the response is sent and the slot is free again
Return(r) ==
    /\ reqs[r].pc = "done"
    /\ reqs' = [reqs EXCEPT ![r] = Idle]
    /\ UNCHANGED <<bookings, otps, mongoose, now, bulkBookings>>

\* ------------------------------------------------------------ document.save()
\* save() runs the validators of every path of the document, modified or
\* not: the enum validator of `status`
StatusRejected(newStatus) == newStatus \notin BookingStatuses

\* the validator of assigned_technician throws (User is not defined) whenever
\* it runs, on null as on an id; a validator does not run on undefined
TechnicianRejected(newTech) == newTech # Undefined

\* mutant: the schema validates the modified paths only
SaveRejectedModifiedOnly(snapStatus, snapTech, newStatus, newTech) ==
    \/ newStatus # snapStatus /\ StatusRejected(newStatus)
    \/ newTech # snapTech /\ TechnicianRejected(newTech)

\* mutant: the handlers save with { validateBeforeSave: false }, as the
\* handlers of the user documents do
SaveRejectedSkipped(snapStatus, snapTech, newStatus, newTech) == FALSE

\* booking.save() rejects with a ValidationError
SaveRejected(snapStatus, snapTech, newStatus, newTech) ==
    \/ StatusRejected(newStatus)
    \/ TechnicianRejected(newTech)

\* booking.save() of a booking read as (snapStatus, snapTech) and changed to
\* (newStatus, newTech): $set of the modified scalars ($unset of one set to
\* undefined), $push of the appended history entries; nothing when rejected
SaveBooking(b, snapStatus, snapTech, newStatus, newTech, entries) ==
    IF SaveRejected(snapStatus, snapTech, newStatus, newTech)
    THEN UNCHANGED bookings
    ELSE bookings' = [bookings EXCEPT ![b] =
        [@ EXCEPT !.status = IF newStatus # snapStatus THEN newStatus ELSE @,
                  !.assigned_technician =
                      IF newTech = snapTech THEN @
                      ELSE IF newTech = Undefined THEN NoTech ELSE newTech,
                  !.statusHistory = @ \o entries]]

\* the ledger has room for k more history entries
Room(b, k) == HistTotal(bookings) + k <= MaxHist

\* ---------------------------------------------------------------- the clock
Tick ==
    /\ now + OtpExpiryMinutes <= MaxTime
    /\ Len(otps) > 0
    /\ now' = now + OtpExpiryMinutes
    /\ UNCHANGED <<bookings, otps, mongoose, bulkBookings, reqs>>

\* the answer of a handler after booking.save(): a ValidationError goes to the
\* error handler, otherwise the handler goes on with `next`
AfterSave(r, q, newStatus, newTech, next) ==
    IF SaveRejected(q.snapStatus, q.snapTech, newStatus, newTech)
    THEN Finish(r, q, "500_validation")
    ELSE next

\* the first read of a handler found booking b: the request with the loaded
\* document's status and technician
Loaded(op, a, b, arg) ==
    [Req(op, a, b, arg) EXCEPT !.snapStatus = bookings[b].status,
                               !.snapTech = bookings[b].assigned_technician]

\* ------------------------------------------------------------ createBooking
\* the paths Booking.create is given by the handler
CreateSupplied ==
    {"bookingId", "user", "services", "address", "scheduleDate",
     "preferredTimeSlot", "notes", "status", "statusHistory"}

\* Booking.create passes the required validators of the schema
CreateAccepted == BookingRequired \subseteq CreateSupplied

\* payment.method, totalAmount and finalAmount are required and never supplied:
\* Booking.create rejects and the handler does not get to its findById
createBooking(r, u, hasServices) ==
    /\ reqs[r] = Idle
    /\ UNCHANGED <<bookings, otps, mongoose, now, bulkBookings>>
    /\ IF ~hasServices
       THEN Finish(r, Req("createBooking", u, 0, "none"), "400_services_required")
       ELSE /\ ~CreateAccepted
            /\ Finish(r, Req("createBooking", u, 0, "none"), "500_validation")

\* --------------------------------------------------------- updateBookingById
\* isAdminOrManager is the route middleware (req, res, next); called as
\* isAdminOrManager(User, user._id) it finds no `user` on the model and throws.
updateBookingById(r, a, b) ==
    /\ reqs[r] = Idle
    /\ IF b \notin BookingIds
       THEN Finish(r, Req("updateBookingById", a, b, "none"), "404")
       ELSE Finish(r, Req("updateBookingById", a, b, "none"), "403")
    /\ UNCHANGED <<bookings, otps, mongoose, now, bulkBookings>>

\* -------------------------------------------------------------- cancelBooking
CancellableStatuses == {"pending", "cancelled", "confirmed"}

cancelBooking(r, a, b, hasReason) ==
    /\ reqs[r] = Idle
    /\ UNCHANGED <<bookings, otps, mongoose, now, bulkBookings>>
    /\ IF ~hasReason
       THEN Finish(r, Req("cancelBooking", a, b, "none"), "400_reason_required")
       ELSE IF ~(/\ b \in BookingIds
                 /\ bookings[b].user = a
                 /\ bookings[b].status \in CancellableStatuses)
       THEN Finish(r, Req("cancelBooking", a, b, "none"), "404")
       ELSE /\ Room(b, 1)
            /\ Goto(r, [Loaded("cancelBooking", a, b, "none") EXCEPT !.pc = "save"])

cancelBookingSave(r) ==
    LET q == reqs[r] IN
    /\ q.op = "cancelBooking" /\ q.pc = "save"
    /\ SaveBooking(q.b, q.snapStatus, q.snapTech, "cancelled", q.snapTech,
                   <<Entry("cancelled", q.actor, "cancelled")>>)
    /\ AfterSave(r, q, "cancelled", q.snapTech, Finish(r, q, "200"))
    /\ UNCHANGED <<otps, mongoose, now, bulkBookings>>

\* --------------------------------------------------------- updateBookingStatus
updateBookingStatus(r, a, b, status) ==
    /\ reqs[r] = Idle
    /\ UNCHANGED <<bookings, otps, mongoose, now, bulkBookings>>
    /\ IF b \notin BookingIds
       THEN Finish(r, Req("updateBookingStatus", a, b, status), "404")
       ELSE IF status = ""
       THEN Finish(r, Req("updateBookingStatus", a, b, status), "400_status_required")
       ELSE IF bookings[b].user # a /\ bookings[b].assigned_technician # a
       THEN Finish(r, Req("updateBookingStatus", a, b, status), "403")
       ELSE /\ Room(b, 1)
            /\ Goto(r, [Loaded("updateBookingStatus", a, b, status) EXCEPT !.pc = "save"])

updateBookingStatusSave(r) ==
    LET q == reqs[r] IN
    /\ q.op = "updateBookingStatus" /\ q.pc = "save"
    /\ SaveBooking(q.b, q.snapStatus, q.snapTech, q.arg, q.snapTech,
                   <<Entry(q.arg, q.actor, "status_update")>>)
    /\ AfterSave(r, q, q.arg, q.snapTech, Finish(r, q, "200"))
    /\ UNCHANGED <<otps, mongoose, now, bulkBookings>>

\* --------------------------------------------------- assignTechnicianToBooking
AssignRoles == {"admin", "manager", "partner"}
WorkloadStatuses == {"assigned", "in_progress"}

\* Booking.countDocuments({assigned_technician, status: {$in: [...]}})
currentWorkload(t) ==
    Cardinality({b \in BookingIds :
        /\ bookings[b].assigned_technician = t
        /\ bookings[b].status \in WorkloadStatuses})

\* The role check, Booking.findById and the code up to the next await.
\* technicianId = NoTech is a request without technicianId (automatic matching).
\* User.discriminator('Technician') runs for every request that got this far.
\* The automatic branch formats the weekday with { weekday: 'lowercase' },
\* which Date.prototype.toLocaleString rejects with a RangeError.
assignTechnicianToBooking(r, a, b, technicianId, forceAssign) ==
    LET q == [Req("assignTechnicianToBooking", a, b, technicianId)
                EXCEPT !.force = forceAssign]
    IN
    /\ reqs[r] = Idle
    /\ UNCHANGED <<bookings, otps, mongoose, now, bulkBookings>>
    /\ IF Role(a) \notin AssignRoles
       THEN Finish(r, q, "403")
       ELSE IF b \notin BookingIds
       THEN Finish(r, q, "404")
       ELSE IF bookings[b].assigned_technician # NoTech /\ ~forceAssign
       THEN Finish(r, q, "400_already_assigned")
       ELSE IF mongoose.discriminator = "throws"
       THEN Finish(r, q, "500_discriminator")
       ELSE IF technicianId = NoTech
       THEN Finish(r, q, "500_range_error")
       ELSE /\ Room(b, 1)
            /\ Goto(r, [Loaded("assignTechnicianToBooking", a, b, technicianId)
                          EXCEPT !.pc = "findTechnician", !.force = forceAssign])

\* Technician.findOne({_id, status: 'active', isOnline: true}).  Technician is
\* a discriminator of User with discriminatorKey 'role': its queries carry
\* role = 'Technician' besides the conditions of the filter
assignTechnicianToBookingFindTechnician(r) ==
    LET q == reqs[r] IN
    /\ q.op = "assignTechnicianToBooking" /\ q.pc = "findTechnician"
    /\ UNCHANGED <<bookings, otps, mongoose, now, bulkBookings>>
    /\ IF ~(/\ Role(q.arg) = "Technician"
            /\ TechnicianDoc(q.arg).status = "active"
            /\ TechnicianDoc(q.arg).isOnline)
       THEN Finish(r, q, "404_technician")
       ELSE Goto(r, [q EXCEPT !.pc = "count"])

\* Booking.countDocuments and the workload and skill checks
assignTechnicianToBookingCount(r) ==
    LET q == reqs[r]
        technician == TechnicianDoc(q.arg)
    IN
    /\ q.op = "assignTechnicianToBooking" /\ q.pc = "count"
    /\ UNCHANGED <<bookings, otps, mongoose, now, bulkBookings>>
    /\ IF currentWorkload(q.arg) >= technician.maxWorkload
       THEN Finish(r, q, "400_max_workload")
       ELSE IF RequiredSkills # {} /\ ~(RequiredSkills \subseteq technician.skills)
       THEN Finish(r, q, "400_skills")
       ELSE Goto(r, [q EXCEPT !.pc = "save"])

\* booking.save() of the assignment: assigned_technician holds the id of the
\* technician, on which the validator throws
assignTechnicianToBookingSave(r) ==
    LET q == reqs[r] IN
    /\ q.op = "assignTechnicianToBooking" /\ q.pc = "save"
    /\ SaveBooking(q.b, q.snapStatus, q.snapTech, "assigned", q.arg,
                   <<Entry("assigned", q.actor, "assigned_manual")>>)
    /\ AfterSave(r, q, "assigned", q.arg, Goto(r, [q EXCEPT !.pc = "updateTechnician"]))
    /\ UNCHANGED <<otps, mongoose, now, bulkBookings>>

\* Technician.findByIdAndUpdate: $set of availability.status, a path of no
\* schema, which the update drops; the pushed note is read by no handler
assignTechnicianToBookingUpdateTechnician(r) ==
    LET q == reqs[r] IN
    /\ q.op = "assignTechnicianToBooking" /\ q.pc = "updateTechnician"
    /\ Goto(r, [q EXCEPT !.pc = "find"])
    /\ UNCHANGED <<bookings, otps, mongoose, now, bulkBookings>>

\* Booking.findById for the response
assignTechnicianToBookingFind(r) ==
    LET q == reqs[r] IN
    /\ q.op = "assignTechnicianToBooking" /\ q.pc = "find"
    /\ Finish(r, q, "200")
    /\ UNCHANGED <<bookings, otps, mongoose, now, bulkBookings>>

\* ------------------------------------------------------- markBookingCompleted
CompletableStatuses == {"assigned", "in_progress"}

\* hasRating: req.body.rating is a number from 1 to 5
markBookingCompleted(r, t, b, hasRating) ==
    /\ reqs[r] = Idle
    /\ UNCHANGED <<bookings, otps, mongoose, now, bulkBookings>>
    /\ IF ~(/\ b \in BookingIds
            /\ bookings[b].assigned_technician = t
            /\ bookings[b].status \in CompletableStatuses)
       THEN Finish(r, Req("markBookingCompleted", t, b, "none"), "404")
       ELSE /\ Room(b, 1)
            /\ Goto(r, [Loaded("markBookingCompleted", t, b, "none")
                          EXCEPT !.pc = "save", !.rating = hasRating])

\* booking.save(); completedAt is a path of no schema
markBookingCompletedSave(r) ==
    LET q == reqs[r] IN
    /\ q.op = "markBookingCompleted" /\ q.pc = "save"
    /\ SaveBooking(q.b, q.snapStatus, q.snapTech, "completed", q.snapTech,
                   <<Entry("completed", q.actor, "completed_by_technician")>>)
    /\ AfterSave(r, q, "completed", q.snapTech,
                 Goto(r, [q EXCEPT !.pc = IF q.rating THEN "aggregate"
                                          ELSE "updateTechnician"]))
    /\ UNCHANGED <<otps, mongoose, now, bulkBookings>>

\* Booking.aggregate over the technician's rated bookings
markBookingCompletedAggregate(r) ==
    LET q == reqs[r] IN
    /\ q.op = "markBookingCompleted" /\ q.pc = "aggregate"
    /\ Goto(r, [q EXCEPT !.pc = "updateTechnician"])
    /\ UNCHANGED <<bookings, otps, mongoose, now, bulkBookings>>

\* User.findByIdAndUpdate: the technician's counters, read by no handler, and
\* availability.status, which the update drops
markBookingCompletedUpdateTechnician(r) ==
    LET q == reqs[r] IN
    /\ q.op = "markBookingCompleted" /\ q.pc = "updateTechnician"
    /\ Goto(r, [q EXCEPT !.pc = "find"])
    /\ UNCHANGED <<bookings, otps, mongoose, now, bulkBookings>>

\* Booking.findById for the response
markBookingCompletedFind(r) ==
    LET q == reqs[r] IN
    /\ q.op = "markBookingCompleted" /\ q.pc = "find"
    /\ Finish(r, q, "200")
    /\ UNCHANGED <<bookings, otps, mongoose, now, bulkBookings>>

\* ---------------------------------------------------------- rescheduleBooking
\* mutant: the handler does not look at the status
ReschedulableStatusesAny == StoredStatuses

\* allowedStatuses
ReschedulableStatuses == {"pending", "confirmed", "assigned"}

\* hasSchedule: the body carries a schedule date and a time slot the schema
\* accepts
rescheduleBooking(r, a, b, hasSchedule) ==
    /\ reqs[r] = Idle
    /\ UNCHANGED <<bookings, otps, mongoose, now, bulkBookings>>
    /\ IF ~hasSchedule
       THEN Finish(r, Req("rescheduleBooking", a, b, "none"), "400_schedule_required")
       ELSE IF b \notin BookingIds
       THEN Finish(r, Req("rescheduleBooking", a, b, "none"), "404")
       ELSE IF bookings[b].user # a /\ Role(a) # "admin" /\ Role(a) # "manager"
       THEN Finish(r, Req("rescheduleBooking", a, b, "none"), "403")
       ELSE IF bookings[b].status \notin ReschedulableStatuses
       THEN Finish(r, Req("rescheduleBooking", a, b, "none"), "400_status")
       ELSE /\ Room(b, 2)
            /\ Goto(r, [Loaded("rescheduleBooking", a, b, "none") EXCEPT !.pc = "save"])

\* mutant: the reschedule keeps the technician
HasTechnicianIgnored(tech) == FALSE

\* if (booking.assigned_technician)
HasTechnician(tech) == tech # NoTech

\* mutant: the reset of the assignment leaves the status as it was
UnassignedStatusKept(snapStatus) == snapStatus

\* booking.status = 'confirmed' of the reset of the assignment
UnassignedStatus(snapStatus) == "confirmed"

\* mutant: the record of the reschedule is pushed after the entry of the reset
RescheduleEntriesSwapped(snapStatus, by, unassigned) ==
    IF unassigned
    THEN <<Entry("confirmed", by, "unassigned_by_reschedule"),
           Entry(snapStatus, by, "reschedule")>>
    ELSE <<Entry(snapStatus, by, "reschedule")>>

\* the statusHistory entries the handler pushes: the record of the reschedule
\* under the status the booking was read with, then the entry of the reset
RescheduleEntries(snapStatus, by, unassigned) ==
    IF unassigned
    THEN <<Entry(snapStatus, by, "reschedule"),
           Entry("confirmed", by, "unassigned_by_reschedule")>>
    ELSE <<Entry(snapStatus, by, "reschedule")>>

\* booking.save(): with a technician the handler assigns undefined to
\* assigned_technician and `confirmed` to status
rescheduleBookingSave(r) ==
    LET q == reqs[r]
        newStatus == IF HasTechnician(q.snapTech) THEN UnassignedStatus(q.snapStatus)
                     ELSE q.snapStatus
        newTech == IF HasTechnician(q.snapTech) THEN Undefined ELSE q.snapTech
    IN
    /\ q.op = "rescheduleBooking" /\ q.pc = "save"
    /\ SaveBooking(q.b, q.snapStatus, q.snapTech, newStatus, newTech,
                   RescheduleEntries(q.snapStatus, q.actor, HasTechnician(q.snapTech)))
    /\ AfterSave(r, q, newStatus, newTech, Goto(r, [q EXCEPT !.pc = "find"]))
    /\ UNCHANGED <<otps, mongoose, now, bulkBookings>>

\* Booking.findById for the response
rescheduleBookingFind(r) ==
    LET q == reqs[r] IN
    /\ q.op = "rescheduleBooking" /\ q.pc = "find"
    /\ Finish(r, q, "200")
    /\ UNCHANGED <<bookings, otps, mongoose, now, bulkBookings>>

\* --------------------------------------------------------------- uploadSelfie
SelfieStatuses == {"assigned", "in_progress"}

uploadSelfie(r, t, b, hasFile) ==
    /\ reqs[r] = Idle
    /\ UNCHANGED <<bookings, otps, mongoose, now, bulkBookings>>
    /\ IF ~hasFile
       THEN Finish(r, Req("uploadSelfie", t, b, "none"), "400_file_required")
       ELSE IF b \notin BookingIds
       THEN Finish(r, Req("uploadSelfie", t, b, "none"), "404")
       ELSE IF bookings[b].assigned_technician # t
       THEN Finish(r, Req("uploadSelfie", t, b, "none"), "403")
       ELSE IF bookings[b].status \notin SelfieStatuses
       THEN Finish(r, Req("uploadSelfie", t, b, "none"), "400_status")
       ELSE /\ Room(b, 1)
            /\ Goto(r, [Loaded("uploadSelfie", t, b, "none") EXCEPT !.pc = "upload"])

\* uploadOnCloudinary; uploaded: whether the media store accepted the file.  A
\* failed upload is caught and answered with 500.  On a booking that is not
\* `assigned` the handler then deletes the selfie it finds on the document.
uploadSelfieUpload(r, uploaded) ==
    LET q == reqs[r] IN
    /\ q.op = "uploadSelfie" /\ q.pc = "upload"
    /\ UNCHANGED <<bookings, otps, mongoose, now, bulkBookings>>
    /\ IF ~uploaded
       THEN Finish(r, q, "500")
       ELSE Goto(r, [q EXCEPT !.pc = IF q.snapStatus = "assigned" THEN "save"
                                     ELSE "delete"])

\* deleteFromCloudinary; its failure is logged and ignored
uploadSelfieDelete(r) ==
    LET q == reqs[r] IN
    /\ q.op = "uploadSelfie" /\ q.pc = "delete"
    /\ Goto(r, [q EXCEPT !.pc = "save"])
    /\ UNCHANGED <<bookings, otps, mongoose, now, bulkBookings>>

\* booking.save() inside the try block: a ValidationError is caught and
\* answered with ApiError(500, 'Failed to upload selfie')
uploadSelfieSave(r) ==
    LET q == reqs[r]
        newStatus == IF q.snapStatus = "assigned" THEN "in_progress" ELSE q.snapStatus
    IN
    /\ q.op = "uploadSelfie" /\ q.pc = "save"
    /\ SaveBooking(q.b, q.snapStatus, q.snapTech, newStatus, q.snapTech,
                   <<Entry("in_progress", q.actor, "selfie")>>)
    /\ IF SaveRejected(q.snapStatus, q.snapTech, newStatus, q.snapTech)
       THEN Finish(r, q, "500")
       ELSE Goto(r, [q EXCEPT !.pc = "find"])
    /\ UNCHANGED <<otps, mongoose, now, bulkBookings>>

\* Booking.findById for the response
uploadSelfieFind(r) ==
    LET q == reqs[r] IN
    /\ q.op = "uploadSelfie" /\ q.pc = "find"
    /\ Finish(r, q, "200")
    /\ UNCHANGED <<bookings, otps, mongoose, now, bulkBookings>>

\* ------------------------------------------------------ markTechnicianReached
\* mutant: the arrival filter also accepts bookings that already arrived
ReachableFromAnyAssigned == {"assigned", "confirmed", "reached", "otp_pending"}

ReachableFrom == {"assigned"}

\* Booking.findOne({_id: bookingId, assigned_technician, status: {$in: [...]}})
markTechnicianReached(r, t, params) ==
    LET bookingId == ParamOf(params, "bookingId")
        b == FirstOf({x \in BookingIds : /\ MatchesId(bookingId, x)
                                         /\ bookings[x].assigned_technician = t
                                         /\ bookings[x].status \in ReachableFrom})
    IN
    /\ reqs[r] = Idle
    /\ UNCHANGED <<bookings, otps, mongoose, now, bulkBookings>>
    /\ IF b = 0
       THEN Finish(r, [Req("markTechnicianReached", t, 0, "none")
                         EXCEPT !.params = params], "404")
       ELSE /\ Room(b, 1)
            /\ Goto(r, [Loaded("markTechnicianReached", t, b, "none")
                          EXCEPT !.pc = "save", !.params = params])

markTechnicianReachedSave(r) ==
    LET q == reqs[r] IN
    /\ q.op = "markTechnicianReached" /\ q.pc = "save"
    /\ SaveBooking(q.b, q.snapStatus, q.snapTech, "reached", q.snapTech,
                   <<Entry("reached", q.actor, "reached")>>)
    /\ AfterSave(r, q, "reached", q.snapTech, Finish(r, q, "200"))
    /\ UNCHANGED <<otps, mongoose, now, bulkBookings>>

\* --------------------------------------------------------- generateBookingOtp
\* requests that are about to create an OTP record
OtpsUnderway ==
    Cardinality({x \in Slots : /\ reqs[x].op = "generateBookingOtp"
                               /\ reqs[x].pc \in {"invalidate", "create"}})

\* Booking.findOne({_id: bookingId, assigned_technician, status: 'reached'})
generateBookingOtp(r, t, params) ==
    LET bookingId == ParamOf(params, "bookingId")
        b == FirstOf({x \in BookingIds : /\ MatchesId(bookingId, x)
                                         /\ bookings[x].assigned_technician = t
                                         /\ bookings[x].status = "reached"})
    IN
    /\ reqs[r] = Idle
    /\ UNCHANGED <<bookings, otps, mongoose, now, bulkBookings>>
    /\ IF b = 0
       THEN Finish(r, [Req("generateBookingOtp", t, 0, "none")
                         EXCEPT !.params = params], "400_not_reached")
       ELSE /\ Room(b, 1)
            /\ bookingId # Missing => Len(otps) + OtpsUnderway < MaxOtps
            /\ Goto(r, [Loaded("generateBookingOtp", t, b, "none")
                          EXCEPT !.pc = "invalidate", !.params = params])

\* OTP.updateMany({booking: bookingId, technician, isUsed: false},
\* {$set: {isUsed: true}}); when it resolves the handler reads the clock for
\* expiresAt and calls OTP.create
generateBookingOtpInvalidate(r) ==
    LET q == reqs[r]
        bookingId == ParamOf(q.params, "bookingId")
    IN
    /\ q.op = "generateBookingOtp" /\ q.pc = "invalidate"
    /\ otps' = [i \in 1..Len(otps) |->
                  IF /\ MatchesId(bookingId, otps[i].booking)
                     /\ otps[i].technician = q.actor
                     /\ ~otps[i].isUsed
                  THEN [otps[i] EXCEPT !.isUsed = TRUE]
                  ELSE otps[i]]
    /\ Goto(r, [q EXCEPT !.pc = "create", !.expiresAt = now + OtpExpiryMinutes])
    /\ UNCHANGED <<bookings, mongoose, now, bulkBookings>>

\* OTP.create({booking: bookingId, technician, otp, expiresAt}) with the code
\* generateOTP() returned; `booking` is required, so without a bookingId the
\* document is rejected and nothing is stored
generateBookingOtpCreate(r, code) ==
    LET q == reqs[r]
        bookingId == ParamOf(q.params, "bookingId")
    IN
    /\ q.op = "generateBookingOtp" /\ q.pc = "create"
    /\ UNCHANGED <<bookings, mongoose, now, bulkBookings>>
    /\ IF bookingId = Missing
       THEN /\ UNCHANGED otps
            /\ Finish(r, q, "500_validation")
       ELSE /\ otps' = Append(otps, [booking |-> bookingId, technician |-> q.actor,
                                     otp |-> code, expiresAt |-> q.expiresAt,
                                     isUsed |-> FALSE, attempts |-> 0])
            /\ Goto(r, [q EXCEPT !.pc = "save"])

\* booking.save() with status otp_pending
generateBookingOtpSave(r) ==
    LET q == reqs[r] IN
    /\ q.op = "generateBookingOtp" /\ q.pc = "save"
    /\ SaveBooking(q.b, q.snapStatus, q.snapTech, "otp_pending", q.snapTech,
                   <<Entry("otp_pending", q.actor, "otp_generated")>>)
    /\ AfterSave(r, q, "otp_pending", q.snapTech, Finish(r, q, "200"))
    /\ UNCHANGED <<otps, mongoose, now, bulkBookings>>

\* ----------------------------------------------------------- verifyBookingOtp
\* mutant: the attempt filter written with $lte
ValidOtpLte(i, b, t) ==
    /\ MatchesId(b, otps[i].booking)
    /\ otps[i].technician = t
    /\ ~otps[i].isUsed
    /\ otps[i].expiresAt > now
    /\ otps[i].attempts <= OtpMaxAttempts

\* mutant: the filter without the attempt limit
ValidOtpNoLimit(i, b, t) ==
    /\ MatchesId(b, otps[i].booking)
    /\ otps[i].technician = t
    /\ ~otps[i].isUsed
    /\ otps[i].expiresAt > now

\* mutant: the expiry compared with $gte
ValidOtpAtExpiry(i, b, t) ==
    /\ MatchesId(b, otps[i].booking)
    /\ otps[i].technician = t
    /\ ~otps[i].isUsed
    /\ otps[i].expiresAt >= now
    /\ otps[i].attempts < OtpMaxAttempts

\* the filter of OTP.findOne in verifyBookingOtp; b is the bookingId the
\* handler read
ValidOtp(i, b, t) ==
    /\ MatchesId(b, otps[i].booking)
    /\ otps[i].technician = t
    /\ ~otps[i].isUsed
    /\ otps[i].expiresAt > now
    /\ otps[i].attempts < OtpMaxAttempts

ValidOtps(b, t) == {i \in 1..Len(otps) : ValidOtp(i, b, t)}

\* .sort({createdAt: -1}): the newest matching record
NewestValidOtp(b, t) == CHOOSE i \in ValidOtps(b, t) : \A j \in ValidOtps(b, t) : j <= i

verifyBookingOtp(r, t, params, code) ==
    LET bookingId == ParamOf(params, "bookingId")
        q == [Req("verifyBookingOtp", t, 0, code) EXCEPT !.params = params]
    IN
    /\ reqs[r] = Idle
    /\ UNCHANGED <<bookings, otps, mongoose, now, bulkBookings>>
    /\ IF ValidOtps(bookingId, t) = {}
       THEN Finish(r, q, "400_no_valid_otp")
       ELSE LET i == NewestValidOtp(bookingId, t) IN
            /\ Room(0, 1)
            /\ Goto(r, [q EXCEPT !.pc = "saveOtp", !.otp = i,
                                 !.attempts = otps[i].attempts + 1])

\* mutant: the remaining attempts computed from the counter before the increment
RemainingAttemptsStale(attempts) == OtpMaxAttempts - (attempts - 1)

RemainingAttempts(attempts) == OtpMaxAttempts - attempts

\* `Invalid OTP. ${remainingAttempts} attempts remaining.`
InvalidOtp(remaining) ==
    CASE remaining = 1 -> "400_invalid_otp_1_remaining"
      [] remaining = 2 -> "400_invalid_otp_2_remaining"
      [] OTHER         -> "400_invalid_otp_3_remaining"

\* otpRecord.save(): the incremented counter, and isUsed when the code matched;
\* the counter never passes the schema's max of 3
verifyBookingOtpSaveOtp(r) ==
    LET q == reqs[r] IN
    /\ q.op = "verifyBookingOtp" /\ q.pc = "saveOtp"
    /\ UNCHANGED <<bookings, mongoose, now, bulkBookings>>
    /\ IF otps[q.otp].otp # q.arg
       THEN /\ otps' = [otps EXCEPT ![q.otp].attempts = q.attempts]
            /\ IF RemainingAttempts(q.attempts) <= 0
               THEN Finish(r, q, "400_max_attempts")
               ELSE Finish(r, q, InvalidOtp(RemainingAttempts(q.attempts)))
       ELSE /\ otps' = [otps EXCEPT ![q.otp].attempts = q.attempts,
                                    ![q.otp].isUsed = TRUE]
            /\ Goto(r, [q EXCEPT !.pc = "findBooking"])

\* Booking.findOne({_id: bookingId, status: 'otp_pending', assigned_technician})
verifyBookingOtpFindBooking(r) ==
    LET q == reqs[r]
        bookingId == ParamOf(q.params, "bookingId")
        b == FirstOf({x \in BookingIds : /\ MatchesId(bookingId, x)
                                         /\ bookings[x].status = "otp_pending"
                                         /\ bookings[x].assigned_technician = q.actor})
    IN
    /\ q.op = "verifyBookingOtp" /\ q.pc = "findBooking"
    /\ UNCHANGED <<bookings, otps, mongoose, now, bulkBookings>>
    /\ IF b = 0
       THEN Finish(r, q, "400_invalid_request")
       ELSE Goto(r, [q EXCEPT !.pc = "save", !.b = b,
                       !.snapStatus = bookings[b].status,
                       !.snapTech = bookings[b].assigned_technician])

\* booking.save() with status in_progress
verifyBookingOtpSave(r) ==
    LET q == reqs[r] IN
    /\ q.op = "verifyBookingOtp" /\ q.pc = "save"
    /\ SaveBooking(q.b, q.snapStatus, q.snapTech, "in_progress", q.snapTech,
                   <<Entry("in_progress", q.actor, "otp_verified")>>)
    /\ AfterSave(r, q, "in_progress", q.snapTech, Finish(r, q, "200"))
    /\ UNCHANGED <<otps, mongoose, now, bulkBookings>>

\* ---------------------------------------------------- updateBookingAssignment
updateBookingAssignment(r, t, b, action) ==
    /\ reqs[r] = Idle
    /\ UNCHANGED <<bookings, otps, mongoose, now, bulkBookings>>
    /\ IF action \notin {"accept", "reject"}
       THEN Finish(r, Req("updateBookingAssignment", t, b, action), "400_action")
       ELSE IF ~(/\ b \in BookingIds
                 /\ bookings[b].assigned_technician = t
                 /\ bookings[b].status = "assigned")
       THEN Finish(r, Req("updateBookingAssignment", t, b, action), "404")
       ELSE /\ Room(b, 1)
            /\ Goto(r, [Loaded("updateBookingAssignment", t, b, action) EXCEPT !.pc = "save"])

\* booking.save() of the acceptance (status confirmed) or of the rejection
\* (assigned_technician null, status pending).  The rejection also pushes the
\* technician to booking.declinedBy, a path of no schema that save() leaves out.
updateBookingAssignmentSave(r) ==
    LET q == reqs[r]
        newStatus == IF q.arg = "accept" THEN "confirmed" ELSE "pending"
        newTech == IF q.arg = "accept" THEN q.snapTech ELSE NoTech
    IN
    /\ q.op = "updateBookingAssignment" /\ q.pc = "save"
    /\ SaveBooking(q.b, q.snapStatus, q.snapTech, newStatus, newTech,
                   <<Entry(newStatus, q.actor, "assignment")>>)
    /\ AfterSave(r, q, newStatus, newTech, Finish(r, q, "200"))
    /\ UNCHANGED <<otps, mongoose, now, bulkBookings>>

\* ------------------------------------------------------------ updateJobStatus
validStatuses ==
    {"pending", "confirmed", "assigned", "reached", "otp_pending", "in_progress",
     "completed", "cancelled", "rescheduled", "rejected"}

\* the statuses the table has a key for
TransitionKeys == {"assigned", "confirmed", "reached", "otp_pending", "in_progress"}

validTransitions(s) ==
    CASE s = "assigned"    -> {"confirmed", "rejected"}
      [] s = "confirmed"   -> {"reached"}
      [] s = "reached"     -> {"otp_pending"}
      [] s = "otp_pending" -> {"in_progress"}
      [] s = "in_progress" -> {"completed"}
      [] OTHER             -> {}

\* validTransitions[currentStatus] && !validTransitions[currentStatus].includes(status)
TransitionRejected(currentStatus, status) ==
    currentStatus \in TransitionKeys /\ status \notin validTransitions(currentStatus)

updateJobStatus(r, t, b, status) ==
    /\ reqs[r] = Idle
    /\ UNCHANGED <<bookings, otps, mongoose, now, bulkBookings>>
    /\ IF status \notin validStatuses
       THEN Finish(r, Req("updateJobStatus", t, b, status), "400_invalid_status")
       ELSE IF ~(b \in BookingIds /\ bookings[b].assigned_technician = t)
       THEN Finish(r, Req("updateJobStatus", t, b, status), "404")
       ELSE IF TransitionRejected(bookings[b].status, status)
       THEN Finish(r, Req("updateJobStatus", t, b, status), "400_invalid_transition")
       ELSE /\ Room(b, 1)
            /\ Goto(r, [Loaded("updateJobStatus", t, b, status) EXCEPT !.pc = "save"])

updateJobStatusSave(r) ==
    LET q == reqs[r] IN
    /\ q.op = "updateJobStatus" /\ q.pc = "save"
    /\ SaveBooking(q.b, q.snapStatus, q.snapTech, q.arg, q.snapTech,
                   <<Entry(q.arg, q.actor, "job_status")>>)
    /\ AfterSave(r, q, q.arg, q.snapTech, Finish(r, q, "200"))
    /\ UNCHANGED <<otps, mongoose, now, bulkBookings>>

\* ---------------------------------------------------------- createBulkBooking
\* req.body.bookings: a payload is TRUE when it carries the paths the Booking
\* schema requires and the handler does not fill in (scheduleDate,
\* payment.method, totalAmount, finalAmount), FALSE when it does not
BulkPayloads == UNION {[1..n -> BOOLEAN] : n \in 0..MaxBulk}

\* booking.save({ session }) of a new document: the required validators, and
\* the validator of assigned_technician on the schema's default null
NewBookingAccepted(payload) == payload /\ ~TechnicianRejected(NoTech)

\* the paths the BulkBooking schema requires
BulkBookingRequired ==
    {"bulkBookingId", "client", "coordinates", "bookingCount", "scheduledDate",
     "preferredTimeSlot", "estimatedDuration", "createdBy"}

\* the paths new BulkBooking({...}) is given by the handler; bulkBookingId is
\* generated in pre('save'), which runs after the document was validated
BulkBookingSupplied ==
    {"client", "coordinates", "address", "bookings", "bookingCount", "serviceTypes",
     "scheduledDate", "preferredTimeSlot", "notes", "createdBy", "status",
     "statusHistory"}

\* bulkBooking.save() passes the schema's required validators
AggregateValid == BulkBookingRequired \subseteq BulkBookingSupplied

\* booking.save({ session }): a write inside the transaction is not in the
\* collection other requests read until the transaction commits
SessionSave(collection, doc) == collection

\* mutant: the handler goes on to the aggregate with nothing created
NothingCreatedSkipped(created) == FALSE

\* createdBookings.length === 0
NothingCreated(created) == Len(created) = 0

\* the bookings of the transaction, in payload order
BulkDocs(clientId, created) ==
    [i \in 1..Len(created) |->
        [user |-> clientId, assigned_technician |-> NoTech, status |-> "pending",
         statusHistory |-> <<Entry("pending", clientId, "bulk")>>,
         declinedBy |-> {},
         servicesPrice |-> ServicesPrice, parts |-> <<>>,
         partsAmount |-> 0, discount |-> 0,
         totalAmount |-> ServicesPrice, finalAmount |-> ServicesPrice]]

\* the checks of the body and mongoose.startSession()
createBulkBooking(r, u, clientId, hasLocation, payloads) ==
    /\ reqs[r] = Idle
    /\ Len(bookings) + Len(payloads) <= MaxBookings
    /\ HistTotal(bookings) + Len(payloads) <= MaxHist
    /\ UNCHANGED <<bookings, otps, mongoose, now, bulkBookings>>
    /\ IF clientId = "none" \/ ~hasLocation \/ Len(payloads) = 0
       THEN Finish(r, [Req("createBulkBooking", u, 0, clientId) EXCEPT !.payloads = payloads],
                   "400_bulk_fields_required")
       ELSE Goto(r, [Idle EXCEPT !.op = "createBulkBooking", !.pc = "saveBooking",
                       !.actor = u, !.arg = clientId, !.payloads = payloads])

\* one pass of the loop over req.body.bookings: booking.save({ session }).
\* After the last payload the handler throws when nothing was created and
\* goes to the aggregate otherwise.
createBulkBookingSaveBooking(r) ==
    LET q == reqs[r]
        index == Len(q.created) + Len(q.errors) + 1
        ok == NewBookingAccepted(q.payloads[index])
        created == IF ok THEN Append(q.created, index) ELSE q.created
        errors == IF ok THEN q.errors ELSE Append(q.errors, index)
        next == [q EXCEPT !.created = created, !.errors = errors]
    IN
    /\ q.op = "createBulkBooking" /\ q.pc = "saveBooking"
    /\ bookings' = IF ok THEN SessionSave(bookings, BulkDocs(q.arg, <<index>>)[1])
                   ELSE bookings
    /\ UNCHANGED <<otps, mongoose, now, bulkBookings>>
    /\ IF index < Len(q.payloads)
       THEN Goto(r, next)
       ELSE IF NothingCreated(created)
       THEN Goto(r, [next EXCEPT !.pc = "abort", !.result = "400_none_created"])
       ELSE Goto(r, [next EXCEPT !.pc = "saveAggregate"])

\* bulkBooking.save({ session }): the aggregate lacks required paths, the save
\* rejects and the handler goes to its catch block.  (A save the schema
\* accepted would be followed by session.commitTransaction().)
createBulkBookingSaveAggregate(r) ==
    LET q == reqs[r]
        first == Len(bookings) + 1
        ids == [i \in 1..Len(q.created) |-> first + i - 1]
    IN
    /\ q.op = "createBulkBooking" /\ q.pc = "saveAggregate"
    /\ UNCHANGED <<otps, mongoose, now>>
    /\ IF AggregateValid
       THEN /\ bookings' = bookings \o BulkDocs(q.arg, q.created)
            /\ bulkBookings' = Append(bulkBookings,
                   [client |-> q.arg, bookings |-> ids, bookingCount |-> Len(q.created)])
            /\ Finish(r, q, "201")
       ELSE /\ UNCHANGED <<bookings, bulkBookings>>
            /\ Goto(r, [q EXCEPT !.pc = "abort", !.result = "500_validation"])

\* session.abortTransaction() in the catch block; the error is thrown again
createBulkBookingAbort(r) ==
    LET q == reqs[r] IN
    /\ q.op = "createBulkBooking" /\ q.pc = "abort"
    /\ Finish(r, q, q.result)
    /\ UNCHANGED <<bookings, otps, mongoose, now, bulkBookings>>

\* ---------------------------------------------------------- addPartsToBooking
\* booking.activities is an array the handler can push to
ActivitiesDefined == "activities" \in BookingPaths

\* the status the part handlers compare booking.status with
PartsStatus == "in-progress"

\* req.body.parts: items {partId, quantity}; "p9" is an id of no part
PartItems ==
    UNION {[1..n -> [partId : PartIds \cup {"p9"}, quantity : {1, 2}]] : n \in 0..MaxItems}

\* updatedParts.findIndex(p => p.part.toString() === partId); 0 when there is none
PartIndex(lines, partId) ==
    IF \E i \in 1..Len(lines) : lines[i].part = partId
    THEN CHOOSE i \in 1..Len(lines) :
             /\ lines[i].part = partId
             /\ \A j \in 1..Len(lines) : lines[j].part = partId => i <= j
    ELSE 0

\* the part lines after one item of the request
AddLine(lines, partId, quantity) ==
    IF PartIndex(lines, partId) > 0
    THEN [lines EXCEPT ![PartIndex(lines, partId)].quantity = @ + quantity]
    ELSE Append(lines, [part |-> partId, price |-> PartPrice(partId), quantity |-> quantity])

\* booking.totalAmount as both part handlers recompute it
TotalWithParts(booking, totalPartsAmount) ==
    (booking.servicesPrice + totalPartsAmount) - booking.discount

addPartsToBooking(r, t, b, items) ==
    /\ reqs[r] = Idle
    /\ UNCHANGED <<bookings, otps, mongoose, now, bulkBookings>>
    /\ LET q == [Req("addPartsToBooking", t, b, "none") EXCEPT !.items = items] IN
       IF Len(items) = 0
       THEN Finish(r, q, "400_parts_required")
       ELSE IF b \notin BookingIds
       THEN Finish(r, q, "404")
       ELSE IF bookings[b].status # PartsStatus
       THEN Finish(r, [q EXCEPT !.snapStatus = bookings[b].status], "400_not_in_progress")
       ELSE Goto(r, [q EXCEPT !.pc = "findPart", !.snapStatus = bookings[b].status,
                             !.lines = bookings[b].parts,
                             !.amount = bookings[b].partsAmount])

\* Part.findById for the next item of the request; after the last item the
\* handler assigns the new lines and amounts, logs the activity and saves
addPartsToBookingFindPart(r) ==
    LET q == reqs[r]
        item == q.items[q.index + 1]
        lines == AddLine(q.lines, item.partId, item.quantity)
        amount == q.amount + PartPrice(item.partId) * item.quantity
        next == [q EXCEPT !.lines = lines, !.amount = amount, !.index = @ + 1]
    IN
    /\ q.op = "addPartsToBooking" /\ q.pc = "findPart"
    /\ UNCHANGED <<otps, mongoose, now, bulkBookings>>
    /\ IF item.partId \notin PartIds
       THEN /\ Finish(r, q, "404_part")
            /\ UNCHANGED bookings
       ELSE IF next.index < Len(q.items)
       THEN /\ Goto(r, next)
            /\ UNCHANGED bookings
       ELSE IF ~ActivitiesDefined
       THEN /\ Finish(r, next, "500_type_error")
            /\ UNCHANGED bookings
       ELSE /\ bookings' = [bookings EXCEPT ![q.b].parts = lines,
                                            ![q.b].partsAmount = amount,
                                            ![q.b].totalAmount =
                                                TotalWithParts(bookings[q.b], amount)]
            /\ Finish(r, next, "200")

\* ------------------------------------------------------ removePartFromBooking
\* quantity 0 is a request without quantity
removePartFromBooking(r, t, b, partId, quantity) ==
    LET q == [Req("removePartFromBooking", t, b, partId) EXCEPT !.amount = quantity]
        booking == bookings[b]
        partIndex == PartIndex(booking.parts, partId)
        part == booking.parts[partIndex]
        without == [i \in 1..(Len(booking.parts) - 1) |->
                       IF i < partIndex THEN booking.parts[i] ELSE booking.parts[i + 1]]
        partial == quantity # 0 /\ quantity < part.quantity
        lines == IF partial
                 THEN [booking.parts EXCEPT ![partIndex].quantity = @ - quantity]
                 ELSE without
        amount == IF partial
                  THEN booking.partsAmount - part.price * quantity
                  ELSE booking.partsAmount - part.price * part.quantity
    IN
    /\ reqs[r] = Idle
    /\ UNCHANGED <<otps, mongoose, now, bulkBookings>>
    /\ IF b \notin BookingIds
       THEN /\ Finish(r, q, "404")
            /\ UNCHANGED bookings
       ELSE IF booking.status # PartsStatus
       THEN /\ Finish(r, [q EXCEPT !.snapStatus = booking.status], "400_not_in_progress")
            /\ UNCHANGED bookings
       ELSE IF partIndex = 0
       THEN /\ Finish(r, [q EXCEPT !.snapStatus = booking.status], "404_part")
            /\ UNCHANGED bookings
       ELSE IF ~ActivitiesDefined
       THEN /\ Finish(r, [q EXCEPT !.snapStatus = booking.status], "500_type_error")
            /\ UNCHANGED bookings
       ELSE /\ bookings' = [bookings EXCEPT ![b].parts = lines,
                                            ![b].partsAmount = amount,
                                            ![b].totalAmount =
                                                TotalWithParts(booking, amount)]
            /\ Finish(r, [q EXCEPT !.snapStatus = booking.status], "200")

\* -------------------------------------------------------------------- routes
\* PATCH /:id/technician/assign: isAdminOrManager, then the handler, which
\* reads req.params.id.  The middleware wants the role Admin or Manager, the
\* handler admin, manager or partner
PatchTechnicianAssign(r, a, b, technicianId, forceAssign) ==
    IF isAdminOrManager(a)
    THEN assignTechnicianToBooking(r, a, b, technicianId, forceAssign)
    ELSE Denied(r, [Req("assignTechnicianToBooking", a, b, technicianId)
                      EXCEPT !.force = forceAssign])

\* POST /:id/technician/reached, POST /:id/otp and PUT /:id/otp: the routes
\* declare the parameter `id`, the handlers read req.params.bookingId
PostTechnicianReached(r, t, b) == markTechnicianReached(r, t, [id |-> b])
PostOtp(r, t, b) == generateBookingOtp(r, t, [id |-> b])
PutOtp(r, t, b, code) == verifyBookingOtp(r, t, [id |-> b], code)

\* POST /:id/parts and DELETE /:id/parts/:partId: isTechnician, then the
\* handler, which reads req.params.id
PostParts(r, t, b, items) ==
    IF isTechnician(t)
    THEN addPartsToBooking(r, t, b, items)
    ELSE Denied(r, [Req("addPartsToBooking", t, b, "none") EXCEPT !.items = items])

DeleteParts(r, t, b, partId, quantity) ==
    IF isTechnician(t)
    THEN removePartFromBooking(r, t, b, partId, quantity)
    ELSE Denied(r, [Req("removePartFromBooking", t, b, partId) EXCEPT !.amount = quantity])

\* ------------------------------------------------------------ specifications
SeqSlots == {1}

\* the callers of the technician endpoints
TechActors == {"t1", "t2"}

\* (caller, technicianId, forceAssign) of an assignment request; a customer is
\* turned away whatever it asks for
AssignInputs ==
    {<<a, t, f>> : a \in Admins, t \in Technicians \cup {NoTech}, f \in BOOLEAN}
        \cup {<<u, NoTech, FALSE>> : u \in Customers}

\* the later awaits of each handler a route reaches.  The awaits that follow
\* a save no document passes (the aggregate, the technician update and the
\* final read of markBookingCompleted, the final read of uploadSelfie, the
\* aggregate of createBulkBooking) are reached by no request
CompleteSteps(S) ==
    \E r \in S : markBookingCompletedSave(r)

RescheduleSteps(S) ==
    \/ \E r \in S : rescheduleBookingSave(r)
    \/ \E r \in S : rescheduleBookingFind(r)

SelfieSteps(S) ==
    \/ \E r \in S, u \in BOOLEAN : uploadSelfieUpload(r, u)
    \/ \E r \in S : uploadSelfieDelete(r)
    \/ \E r \in S : uploadSelfieSave(r)

GenerateSteps(S) ==
    \/ \E r \in S : generateBookingOtpInvalidate(r)
    \/ \E r \in S, c \in Codes : generateBookingOtpCreate(r, c)

VerifySteps(S) ==
    \/ \E r \in S : verifyBookingOtpSaveOtp(r)
    \/ \E r \in S : verifyBookingOtpFindBooking(r)
    \/ \E r \in S : verifyBookingOtpSave(r)

BulkSteps(S) ==
    \/ \E r \in S : createBulkBookingSaveBooking(r)
    \/ \E r \in S : createBulkBookingAbort(r)

NextOn(S) ==
    \/ Tick
    \/ \E r \in S : Return(r)
    \/ \E r \in S, u \in Customers, s \in BOOLEAN : createBooking(r, u, s)
    \/ \E r \in S, a \in Admins, b \in 1..MaxBookings : updateBookingById(r, a, b)
    \/ \E r \in S, a \in Customers \cup Strangers, b \in 1..MaxBookings, h \in BOOLEAN :
          cancelBooking(r, a, b, h)
    \/ \E r \in S : cancelBookingSave(r)
    \/ \E r \in S, a \in Customers \cup Strangers \cup TechActors, b \in 1..MaxBookings,
          s \in StatusInputs : updateBookingStatus(r, a, b, s)
    \/ \E r \in S : updateBookingStatusSave(r)
    \/ \E r \in S, x \in AssignInputs, b \in 1..MaxBookings :
          PatchTechnicianAssign(r, x[1], b, x[2], x[3])
    \/ \E r \in S, t \in TechActors, b \in 1..MaxBookings, g \in BOOLEAN :
          markBookingCompleted(r, t, b, g)
    \/ CompleteSteps(S)
    \/ \E r \in S, a \in Customers \cup Strangers \cup Admins, b \in 1..MaxBookings,
          h \in BOOLEAN : rescheduleBooking(r, a, b, h)
    \/ RescheduleSteps(S)
    \/ \E r \in S, t \in TechActors, b \in 1..MaxBookings, h \in BOOLEAN :
          uploadSelfie(r, t, b, h)
    \/ SelfieSteps(S)
    \/ \E r \in S, t \in TechActors, b \in 1..MaxBookings : PostTechnicianReached(r, t, b)
    \/ \E r \in S : markTechnicianReachedSave(r)
    \/ \E r \in S, t \in TechActors, b \in 1..MaxBookings : PostOtp(r, t, b)
    \/ GenerateSteps(S)
    \/ \E r \in S, t \in TechActors, b \in 1..MaxBookings, c \in Codes :
          PutOtp(r, t, b, c)
    \/ VerifySteps(S)
    \/ \E r \in S, t \in TechActors, b \in 1..MaxBookings,
          x \in {"accept", "reject", "bogus"} : updateBookingAssignment(r, t, b, x)
    \/ \E r \in S : updateBookingAssignmentSave(r)
    \/ \E r \in S, t \in TechActors, b \in 1..MaxBookings, s \in JobStatusInputs :
          updateJobStatus(r, t, b, s)
    \/ \E r \in S : updateJobStatusSave(r)

Next == NextOn(SeqSlots)

\* every handler of the booking ledger, one request at a time, on every build
\* and every stored ledger
Spec == Init /\ [][Next]_vars

\* The arrival flow on its own: the handlers that take an assigned booking
\* to in_progress, and the technician's own status endpoint.
GateStatuses == {"assigned", "confirmed", "reached", "otp_pending"}

NextGateOn(S) ==
    \/ Tick
    \/ \E r \in S : Return(r)
    \/ \E r \in S, t \in TechActors, b \in 1..MaxBookings : PostTechnicianReached(r, t, b)
    \/ \E r \in S : markTechnicianReachedSave(r)
    \/ \E r \in S, t \in TechActors, b \in 1..MaxBookings : PostOtp(r, t, b)
    \/ GenerateSteps(S)
    \/ \E r \in S, t \in TechActors, b \in 1..MaxBookings, c \in Codes :
          PutOtp(r, t, b, c)
    \/ VerifySteps(S)
    \/ \E r \in S, t \in TechActors, b \in 1..MaxBookings, s \in JobStatusInputs :
          updateJobStatus(r, t, b, s)
    \/ \E r \in S : updateJobStatusSave(r)

NextGate == NextGateOn(SeqSlots)

\* the handlers of the arrival flow read no role and call no discriminator
InitGate == InitOn(BuildsOver({"dropped", "null"}, {"lowercase"}), Ledgers(GateStatuses, 1))

SpecGate == InitGate /\ [][NextGate]_vars

\* concurrent requests of one technician on the arrival flow of the first
\* booking
RaceTechs == {"t1"}
RaceBookings == {1}

NextGateRace ==
    \/ Tick
    \/ \E r \in Slots : Return(r)
    \/ \E r \in Slots, t \in RaceTechs, b \in RaceBookings : PostTechnicianReached(r, t, b)
    \/ \E r \in Slots : markTechnicianReachedSave(r)
    \/ \E r \in Slots, t \in RaceTechs, b \in RaceBookings : PostOtp(r, t, b)
    \/ GenerateSteps(Slots)
    \/ \E r \in Slots, t \in RaceTechs, b \in RaceBookings, c \in Codes :
          PutOtp(r, t, b, c)
    \/ VerifySteps(Slots)

InitGateRace == InitOn(BuildsOver({"dropped", "null"}, {"lowercase"}), Ledgers(GateStatuses, 1))

SpecGateRace == InitGateRace /\ [][NextGateRace]_vars

\* concurrent assignment requests, none of them with forceAssign
AssignInputsNoForce == {x \in AssignInputs : ~x[3]}

NextAssignRace ==
    \/ \E r \in Slots : Return(r)
    \/ \E r \in Slots, x \in AssignInputsNoForce, b \in 1..MaxBookings :
          PatchTechnicianAssign(r, x[1], b, x[2], x[3])

InitAssignRace == InitOn(Builds, Ledgers({"pending", "assigned"}, MaxBookings))

SpecAssignRace == InitAssignRace /\ [][NextAssignRace]_vars

\* the customer-facing ledger operations and manual assignment, one request
\* at a time
LedgerStatuses == {"pending", "assigned", "confirmed", "in_progress", "cancelled"}

NextLedger ==
    \/ \E r \in SeqSlots : Return(r)
    \/ \E r \in SeqSlots, u \in Customers, s \in BOOLEAN : createBooking(r, u, s)
    \/ \E r \in SeqSlots, a \in Customers, b \in 1..MaxBookings, h \in BOOLEAN :
          cancelBooking(r, a, b, h)
    \/ \E r \in SeqSlots : cancelBookingSave(r)
    \/ \E r \in SeqSlots, a \in Customers \cup Strangers \cup Admins, b \in 1..MaxBookings,
          h \in BOOLEAN : rescheduleBooking(r, a, b, h)
    \/ RescheduleSteps(SeqSlots)
    \/ \E r \in SeqSlots, x \in AssignInputs, b \in 1..MaxBookings :
          PatchTechnicianAssign(r, x[1], b, x[2], x[3])
    \/ \E r \in SeqSlots, t \in TechActors, b \in 1..MaxBookings,
          x \in {"accept", "reject", "bogus"} : updateBookingAssignment(r, t, b, x)
    \/ \E r \in SeqSlots : updateBookingAssignmentSave(r)

InitLedger ==
    InitOn(BuildsOver({"null"}, {"lowercase", "capitalised"}), Ledgers(LedgerStatuses, MaxBookings))

SpecLedger == InitLedger /\ [][NextLedger]_vars

\* concurrent requests on the first booking: every handler that saves a
\* booking, called by the booking's owner, its technician and an admin
NextLedgerRace ==
    \/ \E r \in Slots : Return(r)
    \/ \E r \in Slots, a \in Customers, b \in RaceBookings, h \in BOOLEAN :
          cancelBooking(r, a, b, h)
    \/ \E r \in Slots : cancelBookingSave(r)
    \/ \E r \in Slots, a \in Customers, b \in RaceBookings, s \in StatusInputs :
          updateBookingStatus(r, a, b, s)
    \/ \E r \in Slots : updateBookingStatusSave(r)
    \/ \E r \in Slots, a \in Customers, b \in RaceBookings, h \in BOOLEAN :
          rescheduleBooking(r, a, b, h)
    \/ RescheduleSteps(Slots)
    \/ \E r \in Slots, a \in Admins, t \in RaceTechs, b \in RaceBookings :
          PatchTechnicianAssign(r, a, b, t, FALSE)
    \/ \E r \in Slots, t \in RaceTechs, b \in RaceBookings, g \in BOOLEAN :
          markBookingCompleted(r, t, b, g)
    \/ CompleteSteps(Slots)
    \/ \E r \in Slots, t \in RaceTechs, b \in RaceBookings, h \in BOOLEAN :
          uploadSelfie(r, t, b, h)
    \/ SelfieSteps(Slots)
    \/ \E r \in Slots, t \in RaceTechs, b \in RaceBookings : PostTechnicianReached(r, t, b)
    \/ \E r \in Slots : markTechnicianReachedSave(r)
    \/ \E r \in Slots, t \in RaceTechs, b \in RaceBookings : PostOtp(r, t, b)
    \/ GenerateSteps(Slots)
    \/ \E r \in Slots, t \in RaceTechs, b \in RaceBookings, c \in Codes :
          PutOtp(r, t, b, c)
    \/ VerifySteps(Slots)
    \/ \E r \in Slots, t \in RaceTechs, b \in RaceBookings,
          x \in {"accept", "reject"} : updateBookingAssignment(r, t, b, x)
    \/ \E r \in Slots : updateBookingAssignmentSave(r)
    \/ \E r \in Slots, t \in RaceTechs, b \in RaceBookings, s \in JobStatusInputs :
          updateJobStatus(r, t, b, s)
    \/ \E r \in Slots : updateJobStatusSave(r)

InitLedgerRace ==
    InitOn(BuildsOver({"dropped", "null"}, {"lowercase"}), Ledgers(StoredStatuses, 1))

SpecLedgerRace == InitLedgerRace /\ [][NextLedgerRace]_vars

\* every handler that writes a booking's status, except the code handlers, one
\* request at a time
NextStatus ==
    \/ \E r \in SeqSlots : Return(r)
    \/ \E r \in SeqSlots, a \in Customers, b \in 1..MaxBookings, h \in BOOLEAN :
          cancelBooking(r, a, b, h)
    \/ \E r \in SeqSlots : cancelBookingSave(r)
    \/ \E r \in SeqSlots, a \in Customers \cup Strangers \cup TechActors,
          b \in 1..MaxBookings, s \in StatusInputs : updateBookingStatus(r, a, b, s)
    \/ \E r \in SeqSlots : updateBookingStatusSave(r)
    \/ \E r \in SeqSlots, t \in TechActors, b \in 1..MaxBookings, g \in BOOLEAN :
          markBookingCompleted(r, t, b, g)
    \/ CompleteSteps(SeqSlots)
    \/ \E r \in SeqSlots, a \in Customers, b \in 1..MaxBookings, h \in BOOLEAN :
          rescheduleBooking(r, a, b, h)
    \/ RescheduleSteps(SeqSlots)
    \/ \E r \in SeqSlots, t \in TechActors, b \in 1..MaxBookings, h \in BOOLEAN :
          uploadSelfie(r, t, b, h)
    \/ SelfieSteps(SeqSlots)
    \/ \E r \in SeqSlots, t \in TechActors, b \in 1..MaxBookings :
          PostTechnicianReached(r, t, b)
    \/ \E r \in SeqSlots : markTechnicianReachedSave(r)
    \/ \E r \in SeqSlots, t \in TechActors, b \in 1..MaxBookings,
          x \in {"accept", "reject", "bogus"} : updateBookingAssignment(r, t, b, x)
    \/ \E r \in SeqSlots : updateBookingAssignmentSave(r)
    \/ \E r \in SeqSlots, t \in TechActors, b \in 1..MaxBookings, s \in JobStatusInputs :
          updateJobStatus(r, t, b, s)
    \/ \E r \in SeqSlots : updateJobStatusSave(r)

InitStatus ==
    InitOn(BuildsOver({"dropped", "null"}, {"lowercase"}), Ledgers(StoredStatuses, 1))

SpecStatus == InitStatus /\ [][NextStatus]_vars

\* bulk creation next to the customer's cancellations, requests running
\* concurrently
BulkClients == {"none", "u1"}

NextBulk ==
    \/ \E r \in Slots : Return(r)
    \/ \E r \in Slots, u \in Customers, s \in BOOLEAN : createBooking(r, u, s)
    \/ \E r \in Slots, a \in Customers, b \in 1..MaxBookings, h \in BOOLEAN :
          cancelBooking(r, a, b, h)
    \/ \E r \in Slots : cancelBookingSave(r)
    \/ \E r \in Slots, u \in Admins, c \in BulkClients, l \in BOOLEAN, p \in BulkPayloads :
          createBulkBooking(r, u, c, l, p)
    \/ BulkSteps(Slots)

InitBulk == InitOn(BuildsOver({"null"}, {"lowercase"}), Ledgers({"pending"}, 1))

SpecBulk == InitBulk /\ [][NextBulk]_vars

\* the part handlers on bookings whose status the owner moves, one request at
\* a time
PartsStatusInputs == {"in_progress", "in-progress", "completed"}

NextParts ==
    \/ \E r \in SeqSlots : Return(r)
    \/ \E r \in SeqSlots, a \in Customers, b \in 1..MaxBookings, s \in PartsStatusInputs :
          updateBookingStatus(r, a, b, s)
    \/ \E r \in SeqSlots : updateBookingStatusSave(r)
    \/ \E r \in SeqSlots, t \in TechActors, b \in 1..MaxBookings, i \in PartItems :
          PostParts(r, t, b, i)
    \/ \E r \in SeqSlots : addPartsToBookingFindPart(r)
    \/ \E r \in SeqSlots, t \in TechActors, b \in 1..MaxBookings, p \in PartIds,
          n \in 0..2 : DeleteParts(r, t, b, p, n)

InitParts ==
    InitOn(BuildsOver({"null"}, {"lowercase", "capitalised"}),
           Ledgers({"otp_pending", "in_progress", "in-progress"}, MaxBookings))

SpecParts == InitParts /\ [][NextParts]_vars

\* ===================================================================== claims

\* the codes of a pair that are neither used nor expired
ActiveOtps(b, t) ==
    {i \in 1..Len(otps) : /\ otps[i].booking = b
                          /\ otps[i].technician = t
                          /\ ~otps[i].isUsed
                          /\ otps[i].expiresAt > now}

C3_StatusIsLastHistoryEntry ==
    [][\A b \in BookingIds :
          /\ Len(bookings'[b].statusHistory) >= Len(bookings[b].statusHistory)
          /\ bookings'[b].status = Last(bookings'[b].statusHistory).status]_vars

\* two interleaved reschedules of a booking with a technician were both saved:
\* the history holds the stored entry and the two entries of each request
C3_Witness ==
    \E r1, r2 \in Slots :
        /\ r1 # r2
        /\ reqs[r1].op = "rescheduleBooking" /\ reqs[r2].op = "rescheduleBooking"
        /\ reqs[r1].pc = "done" /\ reqs[r2].pc = "done"
        /\ reqs[r1].result = "200" /\ reqs[r2].result = "200"
        /\ reqs[r1].b = reqs[r2].b
        /\ reqs[r1].snapTech # NoTech /\ reqs[r2].snapTech # NoTech
        /\ Len(bookings[reqs[r1].b].statusHistory) = 5

\* C4: the attempts counter of every OTP record is at most 3.
C4_AttemptsAtMostThree ==
    \A i \in 1..Len(otps) : otps[i].attempts <= OtpMaxAttempts

C4_Witness ==
    \E i \in 1..Len(otps) : otps[i].attempts = OtpMaxAttempts

\* the pair's unused, unexpired codes have all reached the attempt limit, and
\* c is the value of one of them
LockedFor(b, t, c) ==
    /\ ActiveOtps(b, t) # {}
    /\ \A i \in ActiveOtps(b, t) : otps[i].attempts = OtpMaxAttempts
    /\ \E i \in ActiveOtps(b, t) : otps[i].otp = c

\* C5: once a code has reached the attempt limit, a verifyBookingOtp request
\* submitting its correct value is answered with an error at once, and neither
\* the OTP records nor the booking change.
C5_LockedCodeIsRefused ==
    [][\A r \in Slots :
          (/\ reqs[r] = Idle
           /\ reqs'[r].op = "verifyBookingOtp"
           /\ LockedFor(reqs'[r].params.id, reqs'[r].actor, reqs'[r].arg))
              => /\ reqs'[r].pc = "done"
                 /\ reqs'[r].result = "400_no_valid_otp"
                 /\ otps' = otps
                 /\ bookings' = bookings]_vars

C5_Witness ==
    \E r \in Slots :
        /\ reqs[r].op = "verifyBookingOtp"
        /\ reqs[r].pc = "done"
        /\ reqs[r].result = "400_no_valid_otp"
        /\ LockedFor(reqs[r].params.id, reqs[r].actor, reqs[r].arg)

\* C6: a verifyBookingOtp request for a booking is refused for want of a code
\* only when the pair has no unused, unexpired code below the attempt limit; a
\* wrong code on the first and second attempt is answered with "Invalid OTP"
\* and 2, then 1, remaining attempts; the correct code on the third attempt,
\* for a booking that still waits for this technician, succeeds: attempts = 3,
\* the code is used, and the booking has moved from otp_pending to in_progress.
C6_ThirdAttemptVerifies ==
    \A r \in Slots :
        LET q == reqs[r] IN
        (q.op = "verifyBookingOtp" /\ q.pc = "done") =>
            IF q.otp = 0
            THEN ValidOtps(q.params.id, q.actor) = {}
            ELSE IF otps[q.otp].otp # q.arg
            THEN /\ q.attempts = 1 => q.result = "400_invalid_otp_2_remaining"
                 /\ q.attempts = 2 => q.result = "400_invalid_otp_1_remaining"
            ELSE q.attempts = OtpMaxAttempts =>
                 \/ /\ q.result = "200"
                    /\ otps[q.otp].isUsed
                    /\ otps[q.otp].attempts = OtpMaxAttempts
                    /\ q.snapStatus = "otp_pending"
                    /\ bookings[q.b].status = "in_progress"
                    /\ Last(bookings[q.b].statusHistory).status = "in_progress"
                 \/ /\ q.result = "400_invalid_request"
                    /\ ~(/\ bookings[otps[q.otp].booking].status
                                \in {"reached", "otp_pending"}
                         /\ bookings[otps[q.otp].booking].assigned_technician = q.actor)

\* C8: a status update (updateBookingStatus, updateJobStatus) gets past its
\* validation only when the target status is in the allowed-transition table
\* for the booking's current status; a current status without a table entry
\* allows nothing.
C8_OnlyTableTransitions ==
    \A r \in Slots :
        LET q == reqs[r] IN
        (/\ q.op \in {"updateBookingStatus", "updateJobStatus"}
         /\ \/ q.pc = "save"
            \/ q.pc = "done" /\ q.result = "200")
            => q.arg \in validTransitions(q.snapStatus)

\* C9: once a booking is completed or cancelled, no step changes its status or
\* appends to its statusHistory.
C9_TerminalStatesAreFinal ==
    [][\A b \in BookingIds :
          bookings[b].status \in {"completed", "cancelled"}
              => /\ bookings'[b].status = bookings[b].status
                 /\ bookings'[b].statusHistory = bookings[b].statusHistory]_vars

\* the owner's reschedule of a completed booking that still names its
\* technician was refused for its status
C9_Witness ==
    \E r \in Slots :
        /\ reqs[r].op = "rescheduleBooking"
        /\ reqs[r].pc = "done"
        /\ reqs[r].result = "400_status"
        /\ reqs[r].b \in BookingIds
        /\ bookings[reqs[r].b].status = "completed"
        /\ bookings[reqs[r].b].assigned_technician # NoTech
        /\ bookings[reqs[r].b].statusHistory = <<Entry("completed", "u1", "stored")>>

\* C10: a markTechnicianReached request of the assigned technician for a
\* booking that is already in reached or otp_pending is answered with an error
\* at once and leaves the booking unchanged.
C10_ReachedTwiceIsRefused ==
    [][\A r \in Slots :
          (/\ reqs[r] = Idle
           /\ reqs'[r].op = "markTechnicianReached"
           /\ reqs'[r].params.id \in BookingIds
           /\ bookings[reqs'[r].params.id].assigned_technician = reqs'[r].actor
           /\ bookings[reqs'[r].params.id].status \in {"reached", "otp_pending"})
              => /\ reqs'[r].pc = "done"
                 /\ reqs'[r].result = "404"
                 /\ bookings' = bookings]_vars

C10_Witness ==
    \E r \in Slots :
        /\ reqs[r].op = "markTechnicianReached"
        /\ reqs[r].pc = "done"
        /\ reqs[r].result = "404"
        /\ reqs[r].params.id \in BookingIds
        /\ bookings[reqs[r].params.id].assigned_technician = reqs[r].actor
        /\ bookings[reqs[r].params.id].status = "otp_pending"

\* a request slot holding a createBulkBooking request
IsBulk(q) == q.op = "createBulkBooking"

\* the payloads of a bulk request that carry every path the Booking schema
\* requires of the caller
Creatable(payloads) == {i \in 1..Len(payloads) : payloads[i]}

\* C11: a finished bulk request with a client and a location, of N payloads of
\* which k >= 1 can be created, answered 201: it created exactly those k, an
\* aggregate with exactly k bookings and bookingCount = k exists, and the error
\* list has N - k entries, each the index of a payload that cannot be created.
C11_BulkCommitsCreatedBookings ==
    \A r \in Slots :
        LET q == reqs[r]
            k == Cardinality(Creatable(q.payloads))
        IN
        (/\ IsBulk(q) /\ q.pc = "done"
         /\ q.result # "400_bulk_fields_required"
         /\ k >= 1) =>
            /\ q.result = "201"
            /\ Len(q.created) = k
            /\ Len(q.errors) = Len(q.payloads) - k
            /\ \A i \in 1..Len(q.errors) : q.errors[i] \notin Creatable(q.payloads)
            /\ \E g \in 1..Len(bulkBookings) :
                  /\ bulkBookings[g].bookingCount = k
                  /\ Len(bulkBookings[g].bookings) = k
                  /\ \A i \in 1..k : bulkBookings[g].bookings[i] \in BookingIds

\* C12: when none of the N payloads of a bulk request can be created, no step
\* of the request writes a booking or an aggregate, the request never gets to
\* the aggregate, and it goes to the abort of its transaction with the answer
\* 400 "Failed to create any bookings" and the N per-index errors.
C12_NothingCreatedAborts ==
    [][\A r \in Slots :
          (/\ IsBulk(reqs[r])
           /\ reqs[r].pc = "saveBooking"
           /\ reqs'[r] # reqs[r]
           /\ \A i \in 1..Len(reqs[r].payloads) : ~reqs[r].payloads[i])
              => /\ bookings' = bookings
                 /\ bulkBookings' = bulkBookings
                 /\ reqs'[r].pc \in {"saveBooking", "abort"}
                 /\ reqs'[r].pc = "abort" =>
                       /\ reqs'[r].result = "400_none_created"
                       /\ reqs'[r].errors = [i \in 1..Len(reqs[r].payloads) |-> i]]_vars

C12_Witness ==
    \E r \in Slots :
        /\ IsBulk(reqs[r])
        /\ reqs[r].pc = "done"
        /\ reqs[r].result = "400_none_created"
        /\ Len(reqs[r].payloads) >= 2
        /\ Len(reqs[r].errors) = Len(reqs[r].payloads)

\* a finished request of one of the two part handlers
IsPartsDone(q) ==
    /\ q.op \in {"addPartsToBooking", "removePartFromBooking"}
    /\ q.pc = "done"

\* the request names parts the handler can work on: parts on sale for an
\* addition, a part on the booking for a removal
WellFormedParts(q) ==
    /\ q.b \in BookingIds
    /\ IF q.op = "addPartsToBooking"
       THEN /\ Len(q.items) > 0
            /\ \A i \in 1..Len(q.items) : q.items[i].partId \in PartIds
       ELSE PartIndex(bookings[q.b].parts, q.arg) > 0

\* C14: after a successful addPartsToBooking or removePartFromBooking the
\* booking has finalAmount = totalAmount + partsAmount - discount >= 0; adding
\* 2 units of a part priced 50 to a booking in progress with services of 500,
\* no parts and no discount leaves finalAmount 600 and partsAmount 100.
C14_AmountsAfterParts ==
    \A r \in Slots :
        LET q == reqs[r] IN
        (IsPartsDone(q) /\ q.b \in BookingIds) =>
            LET booking == bookings[q.b] IN
            /\ q.result = "200" =>
                  /\ booking.finalAmount =
                        booking.totalAmount + booking.partsAmount - booking.discount
                  /\ booking.finalAmount >= 0
            /\ (/\ q.op = "addPartsToBooking"
                /\ q.items = <<[partId |-> "p1", quantity |-> 2]>>
                /\ q.snapStatus \in {"in_progress", PartsStatus}
                /\ booking.servicesPrice = 500
                /\ booking.discount = 0)
                  => /\ booking.finalAmount = 600
                     /\ booking.partsAmount = 100

\* C16: a part handler succeeds only on a booking whose status is in_progress,
\* and on such a booking every well-formed request succeeds.
C16_PartsExactlyInProgress ==
    \A r \in Slots :
        LET q == reqs[r] IN
        IsPartsDone(q) =>
            /\ q.result = "200" => q.snapStatus = "in_progress"
            /\ (q.snapStatus = "in_progress" /\ WellFormedParts(q)) => q.result = "200"

\* C17: a manual assignment request of an admin for an active, online
\* technician whose workload is at or above maxWorkload is answered with an
\* error and leaves the booking unchanged without forceAssign, and goes on to
\* assign the technician with forceAssign.
C17_ForceAssignOverridesCapacity ==
    [][\A r \in Slots :
          (/\ reqs[r] = Idle
           /\ reqs'[r].op = "assignTechnicianToBooking"
           /\ reqs'[r].actor \in Admins
           /\ reqs'[r].b \in BookingIds
           /\ reqs'[r].arg \in Technicians
           /\ TechnicianDoc(reqs'[r].arg).status = "active"
           /\ TechnicianDoc(reqs'[r].arg).isOnline
           /\ currentWorkload(reqs'[r].arg) >= TechnicianDoc(reqs'[r].arg).maxWorkload)
              => /\ bookings' = bookings
                 /\ IF reqs'[r].force
                    THEN reqs'[r].pc # "done"
                    ELSE reqs'[r].pc = "done" /\ reqs'[r].result # "200"]_vars

\* C18: a rejection by the technician a booking in assigned is assigned to is
\* answered 200, and afterwards the booking is pending with no technician and
\* the technician is in the booking's declinedBy.
C18_DeclineIsRecorded ==
    \A r \in Slots :
        LET q == reqs[r] IN
        (/\ q.op = "updateBookingAssignment"
         /\ q.pc = "done"
         /\ q.arg = "reject"
         /\ q.snapStatus = "assigned"
         /\ q.snapTech = q.actor) =>
            /\ q.result = "200"
            /\ bookings[q.b].status = "pending"
            /\ bookings[q.b].assigned_technician = NoTech
            /\ q.actor \in bookings[q.b].declinedBy

\* C19: the save of a reschedule of a booking with a technician is accepted,
\* clears the technician, sets the status to confirmed and appends the
\* reschedule record and then the confirmed entry; the save of a reschedule of
\* a booking without technician leaves the status and the technician as they
\* are and appends at most the reschedule record.
C19_RescheduleUnassigns ==
    [][\A r \in Slots :
          (/\ reqs[r].op = "rescheduleBooking"
           /\ reqs[r].pc = "save"
           /\ reqs'[r] # reqs[r]) =>
              LET old == bookings[reqs[r].b]
                  new == bookings'[reqs[r].b]
              IN
              IF old.assigned_technician # NoTech
              THEN /\ reqs'[r].pc = "find"
                   /\ new.assigned_technician = NoTech
                   /\ new.status = "confirmed"
                   /\ new.statusHistory = old.statusHistory \o
                         <<[status |-> old.status], [status |-> "confirmed"]>>
              ELSE /\ new.assigned_technician = NoTech
                   /\ new.status = old.status
                   /\ new.statusHistory =
                         IF reqs'[r].pc = "find"
                         THEN old.statusHistory \o <<[status |-> old.status]>>
                         ELSE old.statusHistory]_vars

C19_Witness ==
    \E r \in Slots :
        /\ reqs[r].op = "rescheduleBooking"
        /\ reqs[r].pc = "done"
        /\ reqs[r].result = "200"
        /\ reqs[r].snapStatus = "assigned"
        /\ reqs[r].snapTech # NoTech
        /\ bookings[reqs[r].b].status = "confirmed"
        /\ bookings[reqs[r].b].assigned_technician = NoTech

\* the technicians the filters of the automatic assignment leave
AutoCandidates ==
    {t \in Technicians : /\ TechnicianDoc(t).status = "active"
                         /\ TechnicianDoc(t).isOnline
                         /\ currentWorkload(t) < TechnicianDoc(t).maxWorkload}

\* C20: an automatic assignment (no technicianId) of an unassigned booking by
\* an admin either assigns a technician that passes the filters or,
\* when none passes, is answered "no technician available" with the booking
\* unchanged.
C20_AutoAssignSelectsCandidate ==
    \A r \in Slots :
        LET q == reqs[r] IN
        (/\ q.op = "assignTechnicianToBooking"
         /\ q.pc = "done"
         /\ q.arg = NoTech
         /\ q.actor \in Admins
         /\ q.b \in BookingIds
         /\ q.result # "400_already_assigned") =>
            \/ /\ q.result = "200"
               /\ bookings[q.b].status = "assigned"
               /\ bookings[q.b].assigned_technician \in Technicians
            \/ /\ q.result = "404_no_technician"
               /\ AutoCandidates = {}


\* C21: a markTechnicianReached request of the assigned technician goes on to
\* move the booking to reached when the booking is in assigned or in confirmed
\* (after the technician accepted the assignment), and is refused in every
\* other status.
C21_ReachedFromAssignedOrConfirmed ==
    [][\A r \in Slots :
          (/\ reqs[r] = Idle
           /\ reqs'[r].op = "markTechnicianReached"
           /\ reqs'[r].params.id \in BookingIds
           /\ bookings[reqs'[r].params.id].assigned_technician = reqs'[r].actor)
              => IF bookings[reqs'[r].params.id].status \in {"assigned", "confirmed"}
                 THEN reqs'[r].pc = "save"
                 ELSE reqs'[r].pc = "done" /\ reqs'[r].result = "404"]_vars


\* the unused codes of a pair that verifyBookingOtp no longer accepts: expired,
\* or at the attempt limit
DeadOtps(b, t) ==
    {i \in 1..Len(otps) : /\ otps[i].booking = b
                          /\ otps[i].technician = t
                          /\ ~otps[i].isUsed
                          /\ ~ValidOtp(i, b, t)}

\* C22: when no code of a booking in otp_pending can be verified any more
\* (attempt limit reached or expired), a generateBookingOtp request of the
\* assigned technician is accepted and goes on to issue a fresh code.
C22_LockedCodeCanBeRegenerated ==
    [][\A r \in Slots :
          (/\ reqs[r] = Idle
           /\ reqs'[r].op = "generateBookingOtp"
           /\ reqs'[r].params.id \in BookingIds
           /\ bookings[reqs'[r].params.id].assigned_technician = reqs'[r].actor
           /\ bookings[reqs'[r].params.id].status = "otp_pending"
           /\ DeadOtps(reqs'[r].params.id, reqs'[r].actor) # {}
           /\ ValidOtps(reqs'[r].params.id, reqs'[r].actor) = {})
              => reqs'[r].pc = "invalidate"]_vars


\* C23: a code expires OtpExpiryMinutes after it was generated: a
\* verifyBookingOtp request made at or after the expiry instant of a code does
\* not work with that code; with no unexpired code left it is answered with an
\* error at once and neither the OTP records nor the booking change.
C23_ExpiredCodeNeverVerifies ==
    [][\A r \in Slots :
          (reqs[r] = Idle /\ reqs'[r].op = "verifyBookingOtp")
              => \/ /\ reqs'[r].otp # 0
                    /\ otps[reqs'[r].otp].expiresAt > now
                 \/ /\ reqs'[r].pc = "done"
                    /\ reqs'[r].result = "400_no_valid_otp"
                    /\ otps' = otps
                    /\ bookings' = bookings]_vars

\* the correct code submitted at its expiry instant, attempts below the limit,
\* the booking waiting in otp_pending: refused
C23_Witness ==
    \E r \in Slots, i \in 1..Len(otps) :
        /\ reqs[r].op = "verifyBookingOtp"
        /\ reqs[r].pc = "done"
        /\ reqs[r].result = "400_no_valid_otp"
        /\ otps[i].booking = reqs[r].params.id
        /\ otps[i].technician = reqs[r].actor
        /\ otps[i].otp = reqs[r].arg
        /\ ~otps[i].isUsed
        /\ otps[i].attempts < OtpMaxAttempts
        /\ otps[i].expiresAt = now
        /\ otps[i].expiresAt = OtpExpiryMinutes
        /\ bookings[reqs[r].params.id].status = "otp_pending"


\* minute of the day of minute n of the wall clock; the deployment starts at
\* 14:30
InstantOfDay(n) == 14 * 60 + 30 + n

\* minute of the day of a start or end of the working hours
MinuteOfDay(hm) == 60 * hm[1] + hm[2]

\* the weekday's working-hours entry of technician t has available = true and
\* the instant lies in [start, end), at minute resolution
WorkingAt(t, n) ==
    LET wh == TechnicianDoc(t).availability.workingHours IN
    /\ wh.available
    /\ MinuteOfDay(wh.start) <= InstantOfDay(n)
    /\ InstantOfDay(n) < MinuteOfDay(wh.end)

\* C24: an automatic assignment (no technicianId) of an unassigned booking by
\* an admin selects only a technician whose working hours contain the
\* instant of the request, and selects one when a technician the other
\* filters leave is inside the window: with 09:00-17:00, at 14:30.
C24_WorkingWithinWindow ==
    \A r \in Slots :
        LET q == reqs[r] IN
        (/\ q.op = "assignTechnicianToBooking"
         /\ q.pc = "done"
         /\ q.arg = NoTech
         /\ q.actor \in Admins
         /\ q.b \in BookingIds
         /\ q.result # "400_already_assigned") =>
            /\ q.result = "200" =>
                  /\ bookings[q.b].assigned_technician \in Technicians
                  /\ WorkingAt(bookings[q.b].assigned_technician, now)
            /\ (\E t \in AutoCandidates : WorkingAt(t, now)) => q.result = "200"

\* technician t is inside a break window at minute n
OnBreakAt(t, n) ==
    LET a == TechnicianDoc(t).availability IN
    a.isOnBreak /\ a.breakStart <= n /\ n <= a.breakEnd

\* C25: an automatic assignment never ends with a technician who is inside a
\* break window, and a manual, forced assignment by an admin of an active,
\* online technician who is inside a break window is not turned away: it goes
\* on to look the technician up.
C25_OnBreakIsNoCandidate ==
    [][\A r \in Slots :
          /\ (/\ reqs'[r].op = "assignTechnicianToBooking"
              /\ reqs'[r].arg = NoTech
              /\ reqs'[r].pc = "done"
              /\ reqs'[r].result = "200")
                 => ~OnBreakAt(bookings'[reqs'[r].b].assigned_technician, now)
          /\ (/\ reqs[r] = Idle
              /\ reqs'[r].op = "assignTechnicianToBooking"
              /\ reqs'[r].actor \in Admins
              /\ reqs'[r].b \in BookingIds
              /\ reqs'[r].arg \in Technicians
              /\ reqs'[r].force
              /\ TechnicianDoc(reqs'[r].arg).status = "active"
              /\ TechnicianDoc(reqs'[r].arg).isOnline
              /\ OnBreakAt(reqs'[r].arg, now))
                 => reqs'[r].pc # "done"]_vars


\* C26: a transition and the mutation that goes with it are one atomic update:
\* in no state does an unused, unexpired code exist for a booking that is still
\* in reached, and in no state has a verifyBookingOtp request marked the
\* matching code used while the booking is not in in_progress.
C26_TransitionAndMutationAtomic ==
    /\ \A b \in BookingIds, t \in Technicians :
          ActiveOtps(b, t) # {} => bookings[b].status # "reached"
    /\ \A r \in Slots :
          LET q == reqs[r] IN
          (/\ q.op = "verifyBookingOtp"
           /\ q.otp # 0
           /\ otps[q.otp].otp = q.arg
           /\ otps[q.otp].isUsed)
              => bookings[otps[q.otp].booking].status = "in_progress"


\* the positions of the entries with status s in a statusHistory
EntriesWith(h, s) == {i \in 1..Len(h) : h[i].status = s}

\* C27: when two verifyBookingOtp requests that both found the same unused,
\* unexpired code of a booking and both submitted it have been answered, at
\* most one of them succeeded and the booking's statusHistory holds exactly one
\* in_progress entry.
C27_CodeVerifiedAtMostOnce ==
    \A r1, r2 \in Slots :
        (/\ r1 # r2
         /\ reqs[r1].op = "verifyBookingOtp" /\ reqs[r2].op = "verifyBookingOtp"
         /\ reqs[r1].pc = "done" /\ reqs[r2].pc = "done"
         /\ reqs[r1].otp # 0 /\ reqs[r1].otp = reqs[r2].otp
         /\ otps[reqs[r1].otp].otp = reqs[r1].arg
         /\ otps[reqs[r2].otp].otp = reqs[r2].arg)
            => /\ ~(reqs[r1].result = "200" /\ reqs[r2].result = "200")
               /\ Cardinality(EntriesWith(
                      bookings[otps[reqs[r1].otp].booking].statusHistory,
                      "in_progress")) = 1


\* an assignment request of an admin without forceAssign, for an
\* existing booking and a technician who is active, online and below
\* maxWorkload
WellFormedAssign(q) ==
    /\ q.op = "assignTechnicianToBooking"
    /\ q.actor \in Admins
    /\ q.b \in BookingIds
    /\ q.arg \in Technicians
    /\ ~q.force
    /\ TechnicianDoc(q.arg).status = "active"
    /\ TechnicianDoc(q.arg).isOnline
    /\ currentWorkload(q.arg) < TechnicianDoc(q.arg).maxWorkload

\* C28: of two concurrent assignTechnicianToBooking requests without
\* forceAssign for one booking at most one succeeds and the other is answered
\* with the already-assigned error: the booking's statusHistory holds at most
\* one assigned entry, and two answered requests are not both 200 and are each
\* 200 or already-assigned.
C28_OneAssignmentWins ==
    /\ \A b \in BookingIds :
          Cardinality(EntriesWith(bookings[b].statusHistory, "assigned")) <= 1
    /\ \A r1, r2 \in Slots :
          (/\ r1 # r2
           /\ WellFormedAssign(reqs[r1]) /\ reqs[r1].pc = "done"
           /\ WellFormedAssign(reqs[r2]) /\ reqs[r2].pc = "done"
           /\ reqs[r1].b = reqs[r2].b)
              => /\ ~(reqs[r1].result = "200" /\ reqs[r2].result = "200")
                 /\ {reqs[r1].result, reqs[r2].result}
                        \subseteq {"200", "400_already_assigned"}


TechnicianStatuses == {"assigned", "reached", "otp_pending", "in_progress"}

\* C30: a booking whose status is assigned, reached, otp_pending or in_progress
\* has an assigned technician; a booking a decline has returned to pending, or
\* a reschedule to confirmed, has none.
C30_TechnicianMatchesStatus ==
    /\ \A b \in BookingIds :
          bookings[b].status \in TechnicianStatuses
              => bookings[b].assigned_technician # NoTech
    /\ \A r \in Slots :
          LET q == reqs[r] IN
          /\ (/\ q.op = "updateBookingAssignment" /\ q.arg = "reject"
              /\ q.pc = "done" /\ q.result = "200")
                 => bookings[q.b].assigned_technician = NoTech
          /\ (/\ q.op = "rescheduleBooking" /\ q.snapTech # NoTech
              /\ q.pc = "done" /\ q.result = "200")
                 => bookings[q.b].assigned_technician = NoTech

\* the reschedule of a booking the technician had accepted (confirmed, with a
\* technician) was saved and left it confirmed with no technician
C30_Witness ==
    \E r \in Slots :
        /\ reqs[r].op = "rescheduleBooking"
        /\ reqs[r].pc = "done"
        /\ reqs[r].result = "200"
        /\ reqs[r].snapStatus = "confirmed"
        /\ reqs[r].snapTech \in Technicians
        /\ bookings[reqs[r].b].status = "confirmed"
        /\ bookings[reqs[r].b].assigned_technician = NoTech
        /\ Len(bookings[reqs[r].b].statusHistory) = 3

=============================================================================
